---- MODULE Spec2Model ----
(***************************************************************************)
(* Entry store, CSV persistence and ranking of the Tarock tournament       *)
(* recorder (src/tarock10.py, class MainWindow).                           *)
(*                                                                         *)
(* Text is a sequence of one-character strings, so that joining fields     *)
(* with "," and splitting them again is computed and not assumed.  The     *)
(* words of the two header lines are kept as single symbols: no code path  *)
(* looks inside them.  The alphabet has no quote character, carriage       *)
(* return or line feed inside a field (a QLineEdit holds one line), so     *)
(* csv.reader reduces to splitting lines at "\n" and fields at ",".        *)
(*                                                                         *)
(* The form widgets (table_edit, round_spin, player_number_edits,          *)
(* points_spins) are inputs: the user may retype them between any two      *)
(* handler calls, so each handler draws their contents with \E.            *)
(* output_display is written and never read and is left out.               *)
(* current_index is 0-based as in the code; entries is a 1-based sequence. *)
(***************************************************************************)
EXTENDS Integers, Sequences, FiniteSets, TLC

VARIABLES
  entries,        \* self.entries
  current_index,  \* self.current_index
  csv_file,       \* content of result.csv, or NoFile
  status_lbl,     \* text of self.status_lbl
  mapping,        \* self.mapping
  mapping_edits,  \* texts of self.mapping_edits, one (num, name) per slot
  map_file,       \* content of player_numbers.csv, or NoFile
  map_loaded,     \* player_numbers.csv was read and no save has run since
  sorted_totals,  \* the (name, total) pairs of the last ranking, in rank order
  stdout,         \* the ranking text last printed
  ranking_file,   \* content of ranking.csv, or NoFile
  op,             \* the handler that ran last
  form,           \* the form it read (_on_submit, _on_change), else NoForm
  reply           \* the answer to its confirmation box, "none" without one

vars == <<entries, current_index, csv_file, status_lbl, mapping,
          mapping_edits, map_file, map_loaded,
          sorted_totals, stdout, ranking_file, op, form, reply>>

\* the left panel and its file
edit_vars == <<mapping_edits, map_file, map_loaded>>

\* ------------------------------------------------------------------
\* Bounds of the model
\* ------------------------------------------------------------------
MaxEntries == 3

\* number of rows of the left panel (20 in the program)
NumSlots == 3

\* ------------------------------------------------------------------
\* Characters and strings
\* ------------------------------------------------------------------
DigitChars == <<"0", "1", "2", "3", "4", "5", "6", "7", "8", "9">>

DigitSet == {DigitChars[i] : i \in 1..10}

DigitVal(c) == (CHOOSE i \in 1..10 : DigitChars[i] = c) - 1

\* the character U+00B2 (superscript two), one symbol of a text
SuperscriptTwo == "^2"

\* Unicode code point of the characters that occur in names
ord(c) ==
  CASE c = " " -> 32
    [] c = "," -> 44
    [] c = "-" -> 45
    [] c \in DigitSet -> 48 + DigitVal(c)
    [] c = "A" -> 65
    [] c = "B" -> 66
    [] c = "a" -> 97
    [] c = "b" -> 98
    [] c = "x" -> 120
    [] c = SuperscriptTwo -> 178

\* str.isdigit(): non-empty and every character a digit; the superscript
\* two is a digit for str.isdigit()
isdigit(s) == Len(s) > 0 /\ \A i \in 1..Len(s) : s[i] \in DigitSet \cup {SuperscriptTwo}

\* the texts int() takes a value from: non-empty, decimal digits only
isdecimal(s) == Len(s) > 0 /\ \A i \in 1..Len(s) : s[i] \in DigitSet

RECURSIVE lstrip(_)
lstrip(s) == IF s # <<>> /\ Head(s) = " " THEN lstrip(Tail(s)) ELSE s

RECURSIVE rstrip(_)
rstrip(s) ==
  IF s # <<>> /\ s[Len(s)] = " " THEN rstrip(SubSeq(s, 1, Len(s) - 1)) ELSE s

\* str.strip()
strip(s) == rstrip(lstrip(s))

RECURSIVE digits_value(_)
digits_value(s) ==
  IF s = <<>> THEN 0
  ELSE 10 * digits_value(SubSeq(s, 1, Len(s) - 1)) + DigitVal(s[Len(s)])

\* int(text): surrounding blanks are ignored, one optional "-" sign, then
\* digits only; anything else raises ValueError (ok = FALSE)
py_int(text) ==
  LET s == strip(text)
      neg == s # <<>> /\ Head(s) = "-"
      body == IF neg THEN Tail(s) ELSE s
  IN IF isdecimal(body)
     THEN [ok |-> TRUE, val |-> IF neg THEN 0 - digits_value(body) ELSE digits_value(body)]
     ELSE [ok |-> FALSE, val |-> 0]

RECURSIVE nat_str(_)
nat_str(n) ==
  IF n < 10 THEN <<DigitChars[n + 1]>>
  ELSE nat_str(n \div 10) \o <<DigitChars[(n % 10) + 1]>>

\* str(n) of an integer
py_str(n) == IF n < 0 THEN <<"-">> \o nat_str(0 - n) ELSE nat_str(n)

\* sep.join(parts)
RECURSIVE join(_, _)
join(parts, sep) ==
  IF parts = <<>> THEN <<>>
  ELSE IF Len(parts) = 1 THEN parts[1]
  ELSE parts[1] \o <<sep>> \o join(Tail(parts), sep)

\* text.split(sep): the fields between the separators
RECURSIVE split(_, _)
split(text, sep) ==
  IF \E i \in 1..Len(text) : text[i] = sep
  THEN LET k == CHOOSE i \in 1..Len(text) :
                  text[i] = sep /\ \A j \in 1..(i - 1) : text[j] # sep
       IN <<SubSeq(text, 1, k - 1)>> \o split(SubSeq(text, k + 1, Len(text)), sep)
  ELSE <<text>>

\* list(csv.reader(f)): one list of fields per line; an empty file has no
\* rows and an empty line is a row without fields
csv_reader(text) ==
  IF text = <<>> THEN <<>>
  ELSE LET lines == split(text, "\n")
       IN [i \in 1..Len(lines) |->
             IF lines[i] = <<>> THEN <<>> ELSE split(lines[i], ",")]

\* ------------------------------------------------------------------
\* Files
\* ------------------------------------------------------------------
\* Path.exists() is false: a value that is no text any write produces
NoFile == <<"no file">>

CSV_HEADER ==
  <<"Table", ",", "Round", ",",
    "Player_Number1", ",", "Points1", ",", "Player_Number2", ",", "Points2", ",",
    "Player_Number3", ",", "Points3", ",", "Player_Number4", ",", "Points4">>

\* the fields of one data row
entry_values(entry) ==
  <<py_str(entry.table), py_str(entry.round)>>
    \o <<entry.people[1].name, py_str(entry.people[1].points)>>
    \o <<entry.people[2].name, py_str(entry.people[2].points)>>
    \o <<entry.people[3].name, py_str(entry.people[3].points)>>
    \o <<entry.people[4].name, py_str(entry.people[4].points)>>

_entries_to_csv(es) ==
  join(<<CSV_HEADER>> \o [i \in 1..Len(es) |-> join(entry_values(es[i]), ",")], "\n")

\* the body of the for loop of _load_from_file for one row: the entry it
\* appends, or ok = FALSE when int() or an index raises
parse_row(row) ==
  IF Len(row) >= 10
     /\ py_int(row[1]).ok /\ py_int(row[2]).ok
     /\ \A i \in 0..3 : py_int(row[4 + 2 * i]).ok
  THEN [ok |-> TRUE,
        entry |-> [table |-> py_int(row[1]).val,
                   round |-> py_int(row[2]).val,
                   people |-> [i \in 1..4 |->
                                 [name |-> row[1 + 2 * i],
                                  points |-> py_int(row[2 + 2 * i]).val]]]]
  ELSE [ok |-> FALSE, entry |-> <<>>]

\* rows k.. are appended to acc one by one; the first row that raises ends
\* the loop and the rows appended before it stay in the list
RECURSIVE load_rows(_, _, _)
load_rows(rows, k, acc) ==
  IF k > Len(rows) THEN [entries |-> acc, raised |-> FALSE]
  ELSE IF parse_row(rows[k]).ok
       THEN load_rows(rows, k + 1, Append(acc, parse_row(rows[k]).entry))
       ELSE [entries |-> acc, raised |-> TRUE]

\* _load_from_file on an empty list: the list afterwards and whether the
\* except branch set the status
_load_from_file(file) ==
  IF file = NoFile THEN [entries |-> <<>>, raised |-> FALSE]
  ELSE LET rows == csv_reader(file)
       IN IF Len(rows) < 2 THEN [entries |-> <<>>, raised |-> FALSE]
          ELSE load_rows(rows, 2, <<>>)

\* ------------------------------------------------------------------
\* Status texts (the exception text is left out of the I/O messages)
\* ------------------------------------------------------------------
STATUS_CLEAR == ""
STATUS_TABLE == "Table number must be an integer."
STATUS_NAMES == "All four player number fields must be filled."
STATUS_NO_SELECTION == "No entry selected to change."
STATUS_EMPTY == "No entries stored yet."
STATUS_FIRST == "Already at the first entry."
STATUS_LAST == "Already at the last entry."
STATUS_NO_DELETE == "No entries to delete."
STATUS_ALL_DELETED == "All entries deleted."
STATUS_WRITE_FAILED == "Failed to write result.csv"
STATUS_READ_FAILED == "Could not read result.csv"
STATUS_NO_RANK == "No entries to rank."
STATUS_RANKED == "Ranking generated - see console / ranking.csv."
STATUS_RANK_WRITE_FAILED == "Could not write ranking.csv"
STATUS_MAP_SAVED == "Mapping saved"
STATUS_MAP_WRITE_FAILED == "Could not write player_numbers.csv"

\* ------------------------------------------------------------------
\* Inputs
\* ------------------------------------------------------------------
\* (table_edit, round_spin) as typed together: tables "12" and "0", the
\* empty text and a text that is no number
Head12 == [table_text |-> <<"1", "2">>, round |-> 1]

Head0 == [table_text |-> <<"0">>, round |-> 2]

HeadEmpty == [table_text |-> <<>>, round |-> 1]

HeadText == [table_text |-> <<"x">>, round |-> 2]

\* (player_number_edits, points_spins) as typed together.
\* The scenario of the specification:
ScenarioRow ==
  [names |-> <<<<"7">>, <<"3">>, <<"9">>, <<"1">>>>, points |-> <<10, -5, 0, 15>>]

\* a tie, the names "7" and "07", blanks typed around two names:
TieRow ==
  [names |-> <<<<"7">>, <<"0", "7">>, <<" ", "A">>, <<"B", " ">>>>,
   points |-> <<5, -3, 10, 10>>]

\* a name with "," whose row does not load again:
CommaRow ==
  [names |-> <<<<"a", ",", "b">>, <<"A">>, <<"B">>, <<"7">>>>, points |-> <<-3, 0, 5, 5>>]

\* a name with "," whose row loads as another entry:
ShiftRow ==
  [names |-> <<<<"7", ",", "5">>, <<"3">>, <<"9">>, <<"1">>>>, points |-> <<10, -5, 0, 15>>]

\* a name of blanks only:
BlankRow ==
  [names |-> <<<<"A">>, <<" ">>, <<"B">>, <<"7">>>>, points |-> <<0, 0, 0, 0>>]

\* no form was read
NoForm == "no form"

form_of(h, r) ==
  [table_text |-> h.table_text, round |-> h.round, names |-> r.names, points |-> r.points]

\* the forms that fail a validation
BadForms == {form_of(HeadEmpty, ScenarioRow), form_of(HeadText, TieRow),
             form_of(Head12, BlankRow)}

\* the forms submitted in Spec
Forms == {form_of(Head12, ScenarioRow), form_of(Head0, TieRow),
          form_of(Head12, CommaRow), form_of(Head0, ShiftRow)} \cup BadForms

\* the forms submitted in SpecRank and SpecIO: names without ","
SmallForms == {form_of(Head12, ScenarioRow), form_of(Head0, TieRow)} \cup BadForms

\* outcome of open(path, "w") and f.write: written, OSError raised by open
\* (file untouched), OSError raised after open truncated the file
WriteOutcomes == {"written", "open failed", "write failed"}

\* the write cannot fail
Written == {"written"}

\* QMessageBox.question answers
Replies == {"Yes", "No"}

\* with open(path, "w") as f: f.write(text): the file afterwards
write_file(old, text, w) ==
  CASE w = "written" -> text
    [] w = "open failed" -> old
    [] w = "write failed" -> <<>>

\* ------------------------------------------------------------------
\* Handlers of the entry store
\* ------------------------------------------------------------------
\* table_text of _on_submit and _on_change
table_text_of(f) == strip(f.table_text)

\* player_numbers of _on_submit and _on_change
player_numbers_of(f) == [i \in 1..4 |-> strip(f.names[i])]

\* (fault) the names are not checked
validation_status_table_only(f) ==
  IF ~isdigit(table_text_of(f)) THEN STATUS_TABLE ELSE STATUS_CLEAR

\* (fault) the table text is not checked
validation_status_names_only(f) ==
  IF \E i \in 1..4 : player_numbers_of(f)[i] = <<>> THEN STATUS_NAMES
  ELSE STATUS_CLEAR

\* the two validation returns: the status they set, or STATUS_CLEAR when
\* the form passes
validation_status(f) ==
  IF ~isdigit(table_text_of(f)) THEN STATUS_TABLE
  ELSE IF \E i \in 1..4 : player_numbers_of(f)[i] = <<>> THEN STATUS_NAMES
  ELSE STATUS_CLEAR

\* the entry dict built from the form
entry_of(f) ==
  [table |-> py_int(table_text_of(f)).val,
   round |-> f.round,
   people |-> [i \in 1..4 |->
                 [name |-> player_numbers_of(f)[i], points |-> f.points[i]]]]

\* _display_current_card: the status after it (cleared when a card is shown)
_display_current_card(es, idx, status) ==
  IF idx = -1 \/ es = <<>> THEN status ELSE STATUS_CLEAR

\* (fault) nothing is written when there is no entry
_save_to_file_skip_empty(es, w, status) ==
  [file |-> IF es = <<>> THEN csv_file ELSE write_file(csv_file, _entries_to_csv(es), w),
   status |-> IF w = "written" THEN status ELSE STATUS_WRITE_FAILED]

\* _save_to_file: the file and the status after it
_save_to_file(es, w, status) ==
  [file |-> write_file(csv_file, _entries_to_csv(es), w),
   status |-> IF w = "written" THEN status ELSE STATUS_WRITE_FAILED]

\* (fault) the new entry is put in front of the list
append_entry_front(es, entry) == <<entry>> \o es

\* entries.append(entry)
append_entry(es, entry) == Append(es, entry)

\* (fault) the cursor is put one place before the new entry
index_after_submit_stale(es) == Len(es) - 2

\* current_index after the append that left es
index_after_submit(es) == Len(es) - 1

\* (fault) the entry after the current one is deleted when there is one
del_entry_next(es, idx) ==
  [i \in 1..(Len(es) - 1) |-> IF i < idx + 2 THEN es[i] ELSE es[i + 1]]

\* del entries[idx]
del_entry(es, idx) ==
  [i \in 1..(Len(es) - 1) |-> IF i < idx + 1 THEN es[i] ELSE es[i + 1]]

\* (fault) the last entry is replaced instead of the current one
set_entry_last(es, idx, entry) == [es EXCEPT ![Len(es)] = entry]

\* entries[idx] = entry
set_entry(es, idx, entry) == [es EXCEPT ![idx + 1] = entry]

\* (fault) the index is not clamped after the last entry was deleted
index_after_delete_unclamped(es, idx) == IF es = <<>> THEN -1 ELSE idx

\* (fault) the index is not reset when the store became empty
index_after_delete_unreset(es, idx) ==
  IF es # <<>> /\ idx >= Len(es) THEN Len(es) - 1 ELSE idx

\* current_index after a delete at idx that left es
index_after_delete(es, idx) ==
  IF es = <<>> THEN -1
  ELSE IF idx >= Len(es) THEN Len(es) - 1 ELSE idx

\* (fault) the upper boundary is tested one place too far
at_last_off_by_one(es, idx) == idx >= Len(es)

\* the guards of the two navigation handlers
at_first(es, idx) == idx <= 0

at_last(es, idx) == idx >= Len(es) - 1

_on_submit(forms, outcomes) ==
  \E f \in forms, w \in outcomes :
    /\ op' = "_on_submit"
    /\ form' = f
    /\ reply' = "none"
    /\ UNCHANGED <<mapping, edit_vars, sorted_totals, stdout, ranking_file>>
    /\ IF validation_status(f) # STATUS_CLEAR
       THEN /\ status_lbl' = validation_status(f)
            /\ UNCHANGED <<entries, current_index, csv_file>>
       ELSE /\ Len(entries) < MaxEntries
            /\ entries' = append_entry(entries, entry_of(f))
            /\ current_index' = index_after_submit(entries')
            /\ LET saved == _save_to_file(entries', w,
                              _display_current_card(entries', current_index', status_lbl))
               IN /\ csv_file' = saved.file
                  /\ status_lbl' = saved.status

_on_change(forms, outcomes) ==
  \E f \in forms, w \in outcomes :
    /\ op' = "_on_change"
    /\ form' = f
    /\ reply' = "none"
    /\ UNCHANGED <<mapping, edit_vars, sorted_totals, stdout, ranking_file>>
    /\ IF current_index = -1
       THEN /\ status_lbl' = STATUS_NO_SELECTION
            /\ UNCHANGED <<entries, current_index, csv_file>>
       ELSE IF validation_status(f) # STATUS_CLEAR
       THEN /\ status_lbl' = validation_status(f)
            /\ UNCHANGED <<entries, current_index, csv_file>>
       ELSE /\ entries' = set_entry(entries, current_index, entry_of(f))
            /\ UNCHANGED current_index
            /\ LET saved == _save_to_file(entries', w,
                              _display_current_card(entries', current_index, status_lbl))
               IN /\ csv_file' = saved.file
                  /\ status_lbl' = saved.status

_show_previous(outcomes) ==
  \E w \in outcomes :
    /\ op' = "_show_previous"
    /\ form' = NoForm
    /\ reply' = "none"
    /\ UNCHANGED <<mapping, edit_vars, sorted_totals, stdout, ranking_file, entries>>
    /\ IF entries = <<>>
       THEN /\ status_lbl' = STATUS_EMPTY
            /\ UNCHANGED <<current_index, csv_file>>
       ELSE IF at_first(entries, current_index)
       THEN /\ status_lbl' = STATUS_FIRST
            /\ UNCHANGED <<current_index, csv_file>>
       ELSE /\ current_index' = current_index - 1
            /\ LET saved == _save_to_file(entries, w,
                              _display_current_card(entries, current_index', status_lbl))
               IN /\ csv_file' = saved.file
                  /\ status_lbl' = saved.status

_show_next(outcomes) ==
  \E w \in outcomes :
    /\ op' = "_show_next"
    /\ form' = NoForm
    /\ reply' = "none"
    /\ UNCHANGED <<mapping, edit_vars, sorted_totals, stdout, ranking_file, entries>>
    /\ IF entries = <<>>
       THEN /\ status_lbl' = STATUS_EMPTY
            /\ UNCHANGED <<current_index, csv_file>>
       ELSE IF at_last(entries, current_index)
       THEN /\ status_lbl' = STATUS_LAST
            /\ UNCHANGED <<current_index, csv_file>>
       ELSE /\ current_index' = current_index + 1
            /\ LET saved == _save_to_file(entries, w,
                              _display_current_card(entries, current_index', status_lbl))
               IN /\ csv_file' = saved.file
                  /\ status_lbl' = saved.status

\* (fault) the entry is deleted whatever the answer to the question is
_delete_current_unconfirmed(outcomes) ==
  \E answer \in Replies, w \in outcomes :
    /\ op' = "_delete_current"
    /\ form' = NoForm
    /\ UNCHANGED <<mapping, edit_vars, sorted_totals, stdout, ranking_file>>
    /\ IF entries = <<>>
       THEN /\ status_lbl' = STATUS_NO_DELETE
            /\ reply' = "none"
            /\ UNCHANGED <<entries, current_index, csv_file>>
       ELSE /\ reply' = answer
            /\ entries' = del_entry(entries, current_index)
            /\ current_index' = index_after_delete(entries', current_index)
            /\ LET shown == IF entries' = <<>> THEN STATUS_ALL_DELETED
                            ELSE _display_current_card(entries', current_index',
                                                       status_lbl)
                   saved == _save_to_file(entries', w, shown)
               IN /\ csv_file' = saved.file
                  /\ status_lbl' = saved.status

_delete_current(outcomes) ==
  \E answer \in Replies, w \in outcomes :
    /\ op' = "_delete_current"
    /\ form' = NoForm
    /\ UNCHANGED <<mapping, edit_vars, sorted_totals, stdout, ranking_file>>
    /\ IF entries = <<>>
       THEN /\ status_lbl' = STATUS_NO_DELETE
            /\ reply' = "none"
            /\ UNCHANGED <<entries, current_index, csv_file>>
       ELSE /\ reply' = answer
            /\ IF answer # "Yes"
               THEN UNCHANGED <<entries, current_index, csv_file, status_lbl>>
               ELSE /\ entries' = del_entry(entries, current_index)
                    /\ current_index' = index_after_delete(entries', current_index)
                    /\ LET shown == IF entries' = <<>> THEN STATUS_ALL_DELETED
                                    ELSE _display_current_card(entries', current_index',
                                                               status_lbl)
                           saved == _save_to_file(entries', w, shown)
                       IN /\ csv_file' = saved.file
                          /\ status_lbl' = saved.status

\* ------------------------------------------------------------------
\* Ranking
\* ------------------------------------------------------------------
\* the persons in the order the two for loops visit them
RECURSIVE people_of(_)
people_of(es) ==
  IF es = <<>> THEN <<>> ELSE Head(es).people \o people_of(Tail(es))

\* (fault) the points of a name seen before replace its total
add_points_overwrite(items, name, pts) ==
  IF \E i \in 1..Len(items) : items[i].name = name
  THEN [i \in 1..Len(items) |->
          IF items[i].name = name THEN [name |-> name, total |-> pts] ELSE items[i]]
  ELSE Append(items, [name |-> name, total |-> pts])

\* totals[name] = totals.get(name, 0) + pts on a dict kept as the sequence
\* of its items in insertion order
add_points(items, name, pts) ==
  IF \E i \in 1..Len(items) : items[i].name = name
  THEN [i \in 1..Len(items) |->
          IF items[i].name = name
          THEN [name |-> name, total |-> items[i].total + pts]
          ELSE items[i]]
  ELSE Append(items, [name |-> name, total |-> pts])

RECURSIVE accumulate(_, _)
accumulate(persons, items) ==
  IF persons = <<>> THEN items
  ELSE accumulate(Tail(persons),
                  add_points(items, Head(persons).name, Head(persons).points))

\* totals.items() after the loops
totals_items(es) == accumulate(people_of(es), <<>>)

\* a < b on str: by code point, a proper prefix first
RECURSIVE str_less(_, _)
str_less(a, b) ==
  IF b = <<>> THEN FALSE
  ELSE IF a = <<>> THEN TRUE
  ELSE IF ord(Head(a)) # ord(Head(b)) THEN ord(Head(a)) < ord(Head(b))
  ELSE str_less(Tail(a), Tail(b))

\* (fault) equal totals are not ordered by name
key_less_total_only(a, b) == 0 - a.total < 0 - b.total

\* (-a.total, a.name) < (-b.total, b.name)
key_less(a, b) ==
  \/ 0 - a.total < 0 - b.total
  \/ a.total = b.total /\ str_less(a.name, b.name)

\* item put behind the last element of the sorted list that is not after it
RECURSIVE insert_sorted(_, _)
insert_sorted(list, item) ==
  IF list = <<>> THEN <<item>>
  ELSE IF key_less(item, Head(list)) THEN <<item>> \o list
  ELSE <<Head(list)>> \o insert_sorted(Tail(list), item)

\* sorted(items, key = lambda kv: (-kv[1], kv[0])), a stable sort
RECURSIVE sorted(_)
sorted(items) ==
  IF items = <<>> THEN <<>>
  ELSE insert_sorted(sorted(SubSeq(items, 1, Len(items) - 1)), items[Len(items)])

\* (fault) the dict is asked only for names written as str(number)
player_name_canonical(map, name) ==
  IF isdigit(name) /\ py_str(py_int(name).val) = name /\ py_int(name).val \in DOMAIN map
  THEN map[py_int(name).val]
  ELSE name

\* mapping.get(int(name), name) if name.isdigit() else name
player_name(map, name) ==
  IF isdigit(name) /\ py_int(name).val \in DOMAIN map
  THEN map[py_int(name).val]
  ELSE name

RANK_HEADER ==
  <<"Rank", ",", "Player_Number", ",", "Player_Name", ",", "Total Points">>

\* int(name) raises ValueError for a name of the ranking
int_raises(ranked) ==
  \E k \in 1..Len(ranked) : isdigit(ranked[k].name) /\ ~py_int(ranked[k].name).ok

\* the lines of the ranking text
ranking_lines(ranked, map) ==
  <<RANK_HEADER>> \o
  [k \in 1..Len(ranked) |->
     join(<<py_str(k), ranked[k].name, player_name(map, ranked[k].name),
            py_str(ranked[k].total)>>, ",")]

ranking_csv(ranked, map) == join(ranking_lines(ranked, map), "\n")

\* (fault) the handler does not return on an empty store
_on_sum_and_rank_unguarded(outcomes) ==
  \E w \in outcomes :
    /\ op' = "_on_sum_and_rank"
    /\ form' = NoForm
    /\ reply' = "none"
    /\ UNCHANGED <<entries, current_index, csv_file, mapping, edit_vars>>
    /\ sorted_totals' = sorted(totals_items(entries))
    /\ stdout' = ranking_csv(sorted_totals', mapping)
    /\ ranking_file' = write_file(ranking_file, stdout', w)
    /\ status_lbl' = IF entries = <<>> THEN STATUS_NO_RANK ELSE STATUS_RANKED

\* (fault) the ranking is written to result.csv
_on_sum_and_rank_to_csv_file(outcomes) ==
  \E w \in outcomes :
    /\ op' = "_on_sum_and_rank"
    /\ form' = NoForm
    /\ reply' = "none"
    /\ UNCHANGED <<entries, current_index, ranking_file, mapping, edit_vars>>
    /\ IF entries = <<>>
       THEN /\ status_lbl' = STATUS_NO_RANK
            /\ UNCHANGED <<sorted_totals, stdout, csv_file>>
       ELSE /\ sorted_totals' = sorted(totals_items(entries))
            /\ stdout' = ranking_csv(sorted_totals', mapping)
            /\ csv_file' = write_file(csv_file, stdout', w)
            /\ status_lbl' = STATUS_RANKED

_on_sum_and_rank(outcomes) ==
  \E w \in outcomes :
    /\ op' = "_on_sum_and_rank"
    /\ form' = NoForm
    /\ reply' = "none"
    /\ UNCHANGED <<entries, current_index, csv_file, mapping, edit_vars>>
    /\ IF entries = <<>>
       THEN /\ status_lbl' = STATUS_NO_RANK
            /\ UNCHANGED <<sorted_totals, stdout, ranking_file>>
       ELSE /\ sorted_totals' = sorted(totals_items(entries))
            /\ IF int_raises(sorted_totals')
               THEN UNCHANGED <<stdout, ranking_file, status_lbl>>
               ELSE /\ stdout' = ranking_csv(sorted_totals', mapping)
                    /\ ranking_file' = write_file(ranking_file, stdout', w)
                    /\ status_lbl' = STATUS_RANKED

\* the ValueError of int(name) left _on_sum_and_rank: the slot has raised
\* and the application is down until it is started again
rank_raised == op = "_on_sum_and_rank" /\ entries # <<>> /\ int_raises(sorted_totals)

\* ------------------------------------------------------------------
\* Mapping of player numbers to names
\* ------------------------------------------------------------------
\* Names of the left panel hold no "," and no quote, so csv.writer writes
\* them as they are; it ends every row with "\r\n", kept as one symbol.
EmptySlot == [num |-> <<>>, name |-> <<>>]

EmptySlots == [i \in 1..NumSlots |-> EmptySlot]

\* (fault) a number that is already in the dict keeps its first name
put_if_absent(map, num, name) ==
  [k \in (DOMAIN map) \cup {num} |-> IF k \in DOMAIN map THEN map[k] ELSE name]

\* mapping[num] = p_text
put(map, num, name) ==
  [k \in (DOMAIN map) \cup {num} |-> IF k = num THEN name ELSE map[k]]

\* one turn of the loop over mapping_edits
put_slot(map, slot) ==
  IF strip(slot.num) = <<>> \/ strip(slot.name) = <<>> THEN map
  ELSE IF ~py_int(strip(slot.num)).ok THEN map
  ELSE put(map, py_int(strip(slot.num)).val, strip(slot.name))

\* the dict built by the loop of _save_mapping_to_file over the first n slots
RECURSIVE mapping_of_edits(_, _)
mapping_of_edits(edits, n) ==
  IF n = 0 THEN <<>> ELSE put_slot(mapping_of_edits(edits, n - 1), edits[n])

\* the keys of sorted(mapping.items())
RECURSIVE sorted_keys(_)
sorted_keys(keys) ==
  IF keys = {} THEN <<>>
  ELSE LET least == CHOOSE x \in keys : \A y \in keys : x <= y
       IN <<least>> \o sorted_keys(keys \ {least})

MAP_HEADER == <<"Player_Number", ",", "Player_Name">>

\* the concatenation of the rows, each ended by "\r\n"
RECURSIVE writerows(_)
writerows(rows) ==
  IF rows = <<>> THEN <<>>
  ELSE join(Head(rows), ",") \o <<"\r\n">> \o writerows(Tail(rows))

\* what the csv.writer of _save_mapping_to_file writes
mapping_to_csv(map) ==
  MAP_HEADER \o <<"\r\n">> \o
  writerows([j \in 1..Cardinality(DOMAIN map) |->
               <<py_str(sorted_keys(DOMAIN map)[j]), map[sorted_keys(DOMAIN map)[j]]>>])

\* the rows csv.reader gives after the header was skipped
map_rows(text) ==
  LET pieces == split(text, "\r\n")
      lines == IF pieces[Len(pieces)] = <<>> THEN SubSeq(pieces, 1, Len(pieces) - 1)
               ELSE pieces
  IN [i \in 1..(Len(lines) - 1) |->
        IF lines[i + 1] = <<>> THEN <<>> ELSE split(lines[i + 1], ",")]

\* the loop of _load_mapping_from_file from row idx (0-based) on: short
\* rows and rows without a number are skipped, the loop ends at the first
\* good row whose idx is no slot, a good row fills the slot of its idx
RECURSIVE load_slots(_, _, _)
load_slots(rows, idx, edits) ==
  IF idx >= Len(rows) THEN edits
  ELSE LET row == rows[idx + 1]
       IN IF Len(row) < 2 THEN load_slots(rows, idx + 1, edits)
          ELSE IF ~py_int(strip(row[1])).ok THEN load_slots(rows, idx + 1, edits)
          ELSE IF idx >= NumSlots THEN edits
          ELSE load_slots(rows, idx + 1,
                          [edits EXCEPT ![idx + 1] =
                             [num |-> py_str(py_int(strip(row[1])).val),
                              name |-> strip(row[2])]])

\* the slots after _load_mapping_from_file
slots_after_load(file, edits) ==
  IF file = NoFile THEN edits ELSE load_slots(map_rows(file), 0, edits)

\* the left panel as typed before Save Mapping is pressed: the first slots
\* are those of the base, the others are empty
fit(base) == [i \in 1..NumSlots |-> IF i <= Len(base) THEN base[i] ELSE EmptySlot]

\* numbers in descending order, the first number again as "07" in slot 3
SlotsUnordered ==
  <<[num |-> <<"7">>, name |-> <<"A">>], [num |-> <<"3">>, name |-> <<"B">>],
    [num |-> <<"0", "7">>, name |-> <<"B">>]>>

\* a slot without a name, a slot without a number, blanks around a number
SlotsIncomplete ==
  <<[num |-> <<"7">>, name |-> <<" ">>], [num |-> <<>>, name |-> <<"A">>],
    [num |-> <<" ", "3", " ">>, name |-> <<"B">>]>>

\* one pair
SlotsOne == <<[num |-> <<"7">>, name |-> <<"A">>]>>

SlotConfigs == {fit(SlotsUnordered), fit(SlotsIncomplete), fit(SlotsOne), fit(<<>>)}

_save_mapping_to_file(configs, outcomes) ==
  \E edits \in configs \cup {mapping_edits}, w \in outcomes :
    /\ op' = "_save_mapping_to_file"
    /\ form' = NoForm
    /\ reply' = "none"
    /\ mapping_edits' = edits
    /\ mapping' = mapping_of_edits(edits, NumSlots)
    /\ map_file' = write_file(map_file, mapping_to_csv(mapping'), w)
    /\ status_lbl' = IF w = "written" THEN STATUS_MAP_SAVED ELSE STATUS_MAP_WRITE_FAILED
    /\ map_loaded' = FALSE
    /\ UNCHANGED <<entries, current_index, csv_file, sorted_totals, stdout, ranking_file>>

_load_mapping_from_file ==
  /\ op' = "_load_mapping_from_file"
  /\ form' = NoForm
  /\ reply' = "none"
  /\ mapping_edits' = slots_after_load(map_file, mapping_edits)
  /\ map_loaded' = IF map_file = NoFile THEN map_loaded ELSE TRUE
  /\ UNCHANGED <<mapping, map_file, status_lbl>>
  /\ UNCHANGED <<entries, current_index, csv_file, sorted_totals, stdout, ranking_file>>

\* ------------------------------------------------------------------
\* Construction
\* ------------------------------------------------------------------
\* current_index after the load that left es
index_after_load(es) == IF es # <<>> THEN 0 ELSE -1

\* status after __init__: the except branch of the load sets it and the
\* first card, when there is one, clears it
status_after_load(loaded) ==
  _display_current_card(loaded.entries, index_after_load(loaded.entries),
                        IF loaded.raised THEN STATUS_READ_FAILED ELSE STATUS_CLEAR)

\* MainWindow.__init__ on the files found on disk
__init__(file, rfile, mfile) ==
  /\ entries = _load_from_file(file).entries
  /\ current_index = index_after_load(entries)
  /\ status_lbl = status_after_load(_load_from_file(file))
  /\ csv_file = file
  /\ mapping = <<>>
  /\ mapping_edits = slots_after_load(mfile, EmptySlots)
  /\ map_file = mfile
  /\ map_loaded = (mfile # NoFile)
  /\ sorted_totals = <<>>
  /\ stdout = <<>>
  /\ ranking_file = rfile
  /\ op = "__init__"
  /\ form = NoForm
  /\ reply = "none"

\* main(): the program is closed and started again on the files it left
main ==
  /\ entries' = _load_from_file(csv_file).entries
  /\ current_index' = index_after_load(entries')
  /\ status_lbl' = status_after_load(_load_from_file(csv_file))
  /\ mapping' = <<>>
  /\ mapping_edits' = slots_after_load(map_file, EmptySlots)
  /\ map_loaded' = (map_file # NoFile)
  /\ sorted_totals' = <<>>
  /\ stdout' = <<>>
  /\ op' = "__init__"
  /\ form' = NoForm
  /\ reply' = "none"
  /\ UNCHANGED <<csv_file, ranking_file, map_file>>

\* result.csv as found at the first start: absent, written by an earlier
\* run, or edited by hand so that its second data row has a points field
\* that is no integer
StoredEntry == entry_of(form_of(Head12, ScenarioRow))

MalformedRow ==
  join(<<<<"1", "2">>, <<"2">>, <<"A">>, <<"x">>, <<"B">>, <<"0">>,
         <<"7">>, <<"0">>, <<"3">>, <<"0">>>>, ",")

MalformedFile == _entries_to_csv(<<StoredEntry>>) \o <<"\n">> \o MalformedRow

InitialFiles == {NoFile, _entries_to_csv(<<StoredEntry>>), MalformedFile}

Init == \E file \in InitialFiles : __init__(file, NoFile, NoFile)

\* result.csv for the specification of the mapping: two entries
RankedFile ==
  _entries_to_csv(<<StoredEntry, entry_of(form_of(Head0, TieRow))>>)

\* player_numbers.csv as found at the first start: absent, written by an
\* earlier run with the pair (7, A), or edited by hand: a row without a
\* number, then the pairs (3, B), (7, A) and (9, B)
MapFileSaved == mapping_to_csv(put(<<>>, 7, <<"A">>))

MapFileEdited ==
  MAP_HEADER \o <<"\r\n">> \o
  writerows(<<<<<<"x">>, <<"A">>>>, <<<<"3">>, <<"B">>>>, <<<<"7">>, <<"A">>>>,
              <<<<"9">>, <<"B">>>>>>)

InitialMapFiles == {NoFile, MapFileSaved, MapFileEdited}

\* a name made of the superscript two:
SuperscriptRow ==
  [names |-> <<<<SuperscriptTwo>>, <<"7">>, <<"A">>, <<"B">>>>, points |-> <<5, 0, -5, 0>>]

\* result.csv with a round that has the player "\u00b2"
SuperscriptFile == _entries_to_csv(<<entry_of(form_of(Head12, SuperscriptRow))>>)

InitMap ==
  \E file \in {RankedFile, SuperscriptFile}, mfile \in InitialMapFiles :
    __init__(file, NoFile, mfile)

\* ------------------------------------------------------------------
\* Specifications
\* ------------------------------------------------------------------
\* the entry store and its file, every write succeeding
Next ==
  \/ _on_submit(Forms, Written)
  \/ _on_change(Forms, Written)
  \/ _show_previous(Written)
  \/ _show_next(Written)
  \/ _delete_current(Written)
  \/ main

Spec == Init /\ [][Next]_vars

\* the entry store and the ranking, every write succeeding
NextRank ==
  \/ _on_submit(SmallForms, Written)
  \/ _on_change(SmallForms, Written)
  \/ _show_previous(Written)
  \/ _show_next(Written)
  \/ _delete_current(Written)
  \/ _on_sum_and_rank(Written)
  \/ main

SpecRank == Init /\ [][NextRank]_vars

\* the entry store and its file, the write of result.csv failing or not
NextIO ==
  \/ _on_submit(SmallForms, WriteOutcomes)
  \/ _on_change(SmallForms, WriteOutcomes)
  \/ _show_previous(WriteOutcomes)
  \/ _show_next(WriteOutcomes)
  \/ _delete_current(WriteOutcomes)
  \/ main

SpecIO == Init /\ [][NextIO]_vars

\* submit, delete and the ranking, the write of ranking.csv failing or not
NextRankIO ==
  \/ _on_submit(SmallForms, Written)
  \/ _delete_current(Written)
  \/ _on_sum_and_rank(WriteOutcomes)

SpecRankIO == Init /\ [][NextRankIO]_vars

\* the mapping, its file and the ranking on a store of two entries
NextMap ==
  \/ ~rank_raised /\ _save_mapping_to_file(SlotConfigs, WriteOutcomes)
  \/ ~rank_raised /\ _load_mapping_from_file
  \/ ~rank_raised /\ _on_sum_and_rank(Written)
  \/ main

SpecMap == InitMap /\ [][NextMap]_vars

TypeOK ==
  /\ Len(entries) <= MaxEntries
  /\ current_index \in -1..(MaxEntries - 1)

\* ------------------------------------------------------------------
\* Properties
\* ------------------------------------------------------------------
\* the form passes the validation of submit and change: the table text is
\* made of digits only and no name is empty after stripping
FormIsValid(f) ==
  /\ isdigit(strip(f.table_text))
  /\ \A i \in 1..4 : strip(f.names[i]) # <<>>

\* the step is a call of _on_submit with a form that fails validation
SubmitRejected == op' = "_on_submit" /\ ~FormIsValid(form')

\* the step is a call of _on_submit with a form that passes validation
SubmitAccepted == op' = "_on_submit" /\ FormIsValid(form')

\* the step is a call of _delete_current that was confirmed
DeleteConfirmed == op' = "_delete_current" /\ reply' = "Yes"

Min(a, b) == IF a <= b THEN a ELSE b

\* C1: current_index is -1 exactly when entries is empty, and otherwise a
\* valid index: 0 <= current_index < len(entries).
C1_CursorInvariant ==
  /\ (current_index = -1) <=> (entries = <<>>)
  /\ entries # <<>> => (0 <= current_index /\ current_index < Len(entries))

\* C1 witness: a confirmed delete left two entries with the cursor on the
\* last one, and a ranking has been produced earlier
C1_Witness ==
  /\ op = "_delete_current" /\ reply = "Yes"
  /\ Len(entries) = 2 /\ current_index = 1
  /\ sorted_totals # <<>>

\* C2: loading the text that _entries_to_csv writes gives the stored
\* entries back: same length, order, table, round, names and points.
C2_RoundTrip == _load_from_file(_entries_to_csv(entries)).entries = entries

\* C3: a submit whose form fails validation leaves entries, current_index
\* and the entries file unchanged.
C3_RejectedSubmitChangesNothing ==
  [][SubmitRejected => UNCHANGED <<entries, current_index, csv_file>>]_vars

\* C3 witness: a submit with a blank name was rejected on a store whose
\* file differs from the text of the entries
C3_Witness ==
  /\ op = "_on_submit" /\ ~FormIsValid(form)
  /\ status_lbl = STATUS_NAMES
  /\ entries # <<>>
  /\ csv_file # _entries_to_csv(entries)

\* C4: a successful submit appends exactly one entry at the end, keeps the
\* earlier entries where they were, and puts the cursor on the new entry.
C4_SubmitAppends ==
  [][SubmitAccepted =>
       /\ Len(entries') = Len(entries) + 1
       /\ \A i \in 1..Len(entries) : entries'[i] = entries[i]
       /\ entries'[Len(entries')].round = form'.round
       /\ \A k \in 1..4 :
            /\ entries'[Len(entries')].people[k].name = strip(form'.names[k])
            /\ entries'[Len(entries')].people[k].points = form'.points[k]
       /\ current_index' = Len(entries') - 1]_vars

\* C4 witness: a submit was accepted as the third entry
C4_Witness ==
  /\ op = "_on_submit" /\ FormIsValid(form)
  /\ Len(entries) = 3 /\ current_index = 2
  /\ entries[3] # entries[1]

\* C5: a confirmed delete on n >= 1 entries with cursor i removes exactly
\* the entry at index i; the cursor becomes -1 if n = 1 and min(i, n-2)
\* otherwise.
C5_DeleteRemovesCurrent ==
  [][DeleteConfirmed =>
       /\ Len(entries) >= 1
       /\ Len(entries') = Len(entries) - 1
       /\ \A j \in 1..Len(entries') :
            entries'[j] = IF j <= current_index THEN entries[j] ELSE entries[j + 1]
       /\ current_index' = IF Len(entries) = 1 THEN -1
                           ELSE Min(current_index, Len(entries) - 2)]_vars

\* C5 witness: a confirmed delete left two different entries with the
\* cursor on the first one
C5_Witness ==
  /\ op = "_delete_current" /\ reply = "Yes"
  /\ Len(entries) = 2 /\ current_index = 0
  /\ entries[1] # entries[2]

\* C6: after a delete has emptied the store, current_index is -1; while
\* the store is empty every previous and next fails with the empty-store
\* status and changes neither entries nor current_index; and the store
\* stays empty until a submit.
C6_EmptyStoreNavigationFails ==
  [][/\ (DeleteConfirmed /\ entries' = <<>>) => current_index' = -1
     /\ (entries = <<>> /\ op' \in {"_show_previous", "_show_next"}) =>
          /\ status_lbl' = STATUS_EMPTY
          /\ UNCHANGED <<entries, current_index>>
     /\ (entries = <<>> /\ op' # "_on_submit") =>
          entries' = <<>>]_vars

\* C6 witness: the store is empty, its file holds the header only (as
\* written by the delete that emptied it) and a next has just failed
C6_Witness ==
  /\ op = "_show_next"
  /\ status_lbl = STATUS_EMPTY
  /\ entries = <<>> /\ current_index = -1
  /\ csv_file = CSV_HEADER

\* C7: on a non-empty store, previous at index 0 and next at the last
\* index fail with the boundary status and change nothing; elsewhere they
\* move current_index by exactly one and leave entries unchanged.
C7_NavigationBoundaries ==
  [][/\ (entries # <<>> /\ op' = "_show_previous") =>
          /\ entries' = entries
          /\ IF current_index = 0
             THEN status_lbl' = STATUS_FIRST /\ current_index' = current_index
             ELSE current_index' = current_index - 1
     /\ (entries # <<>> /\ op' = "_show_next") =>
          /\ entries' = entries
          /\ IF current_index = Len(entries) - 1
             THEN status_lbl' = STATUS_LAST /\ current_index' = current_index
             ELSE current_index' = current_index + 1]_vars

\* C7 witness: next has failed at the last of three entries
C7_Witness ==
  /\ op = "_show_next"
  /\ status_lbl = STATUS_LAST
  /\ Len(entries) = 3 /\ current_index = 2

\* C8: change fails with the no-selection status when current_index is -1,
\* and a change that fails for that reason or for an invalid form leaves
\* entries, current_index and the entries file unchanged.
C8_RejectedChangeChangesNothing ==
  [][op' = "_on_change" =>
       /\ current_index = -1 => status_lbl' = STATUS_NO_SELECTION
       /\ (current_index = -1 \/ ~FormIsValid(form')) =>
            UNCHANGED <<entries, current_index, csv_file>>]_vars

\* C8 witness: a change with a table text that is no number was rejected
\* on a non-empty store whose file differs from the text of the entries
C8_Witness ==
  /\ op = "_on_change" /\ ~isdigit(strip(form.table_text))
  /\ status_lbl = STATUS_TABLE
  /\ entries # <<>>
  /\ csv_file # _entries_to_csv(entries)

\* C9: a successful change replaces only the entry at current_index, by
\* the submitted values: the length, every other entry and current_index
\* are unchanged.
C9_ChangeReplacesCurrent ==
  [][(op' = "_on_change" /\ current_index # -1 /\ FormIsValid(form')) =>
       /\ Len(entries') = Len(entries)
       /\ \A j \in 1..Len(entries) : j # current_index + 1 => entries'[j] = entries[j]
       /\ entries'[current_index + 1].round = form'.round
       /\ \A k \in 1..4 :
            /\ entries'[current_index + 1].people[k].name = strip(form'.names[k])
            /\ entries'[current_index + 1].people[k].points = form'.points[k]
       /\ current_index' = current_index]_vars

\* C9 witness: a change was accepted on the first of three entries and
\* left it different from the other two
C9_Witness ==
  /\ op = "_on_change" /\ FormIsValid(form)
  /\ Len(entries) = 3 /\ current_index = 0
  /\ entries[1].people[1].name = strip(form.names[1])
  /\ entries[1] # entries[2] /\ entries[1] # entries[3]

\* the raw names stored in any seat of any entry
RawNames(es) == {es[i].people[k].name : i \in 1..Len(es), k \in 1..4}

\* the (entry, seat) places where the name is stored
Occurrences(es, name) ==
  {pl \in (1..Len(es)) \X (1..4) : es[pl[1]].people[pl[2]].name = name}

\* the sum of the points stored at the places
RECURSIVE SumPoints(_, _)
SumPoints(es, places) ==
  IF places = {} THEN 0
  ELSE LET pl == CHOOSE x \in places : TRUE
       IN es[pl[1]].people[pl[2]].points + SumPoints(es, places \ {pl})

LexBefore(a, b) ==
  \E i \in 1..(Len(b)) :
    /\ \A j \in 1..(i - 1) : j <= Len(a) /\ a[j] = b[j]
    /\ \/ i = Len(a) + 1
       \/ i <= Len(a) /\ ord(a[i]) < ord(b[i])

\* the fields of the k-th data line of the ranking text
RankLine(text, k) == split(split(text, "\n")[k + 1], ",")

\* C11: the rows of a ranking are in descending order of total, rows with
\* equal totals in ascending lexicographic order of the raw name, and the
\* rank field of the k-th row is k.
C11_RankOrder ==
  (op = "_on_sum_and_rank" /\ entries # <<>>) =>
    /\ \A k \in 1..(Len(sorted_totals) - 1) :
         \/ sorted_totals[k].total > sorted_totals[k + 1].total
         \/ /\ sorted_totals[k].total = sorted_totals[k + 1].total
            /\ LexBefore(sorted_totals[k].name, sorted_totals[k + 1].name)
    /\ \A k \in 1..Len(sorted_totals) : RankLine(stdout, k)[1] = py_str(k)

\* C11 witness: a ranking where "1" and "7" tie at 15 on ranks 1 and 2
\* ("7" was met first) and "A" and "B" tie at 10 on ranks 3 and 4
C11_Witness ==
  /\ op = "_on_sum_and_rank"
  /\ Len(sorted_totals) >= 4
  /\ sorted_totals[1] = [name |-> <<"1">>, total |-> 15]
  /\ sorted_totals[2] = [name |-> <<"7">>, total |-> 15]
  /\ sorted_totals[3] = [name |-> <<"A">>, total |-> 10]
  /\ sorted_totals[4] = [name |-> <<"B">>, total |-> 10]
  /\ RankLine(stdout, 2)[1] = <<"2">>

\* C12: rank on an empty store sets the empty-store status, leaves
\* ranking.csv as it was and emits no ranking.
C12_RankOnEmptyStore ==
  [][(entries = <<>> /\ op' = "_on_sum_and_rank") =>
       /\ status_lbl' = STATUS_NO_RANK
       /\ UNCHANGED <<ranking_file, stdout, sorted_totals>>]_vars

\* C12 witness: rank has failed on an empty store while ranking.csv holds
\* the ranking of an earlier, non-empty store
C12_Witness ==
  /\ op = "_on_sum_and_rank"
  /\ entries = <<>>
  /\ status_lbl = STATUS_NO_RANK
  /\ ranking_file # NoFile
  /\ Len(split(ranking_file, "\n")) > 1

\* some data row of the file makes the loop of the load raise: too few
\* columns, or a table, round or points field that is no integer
HasMalformedRow(file) ==
  /\ file # NoFile
  /\ \E k \in 2..Len(csv_reader(file)) : ~parse_row(csv_reader(file)[k]).ok

\* C13: the startup load is all-or-nothing: with a malformed data row in
\* the file the store is empty after the load, current_index = -1.
C13_LoadAllOrNothing ==
  (op = "__init__" /\ HasMalformedRow(csv_file)) =>
    (entries = <<>> /\ current_index = -1)

\* C19: every stored entry has table >= 1 and round >= 1.
C19_PositiveTableAndRound ==
  \A i \in 1..Len(entries) : entries[i].table >= 1 /\ entries[i].round >= 1

\* the handler that ran last got as far as its call of _save_to_file
SaveRan ==
  \/ op = "_on_submit" /\ FormIsValid(form)
  \/ op = "_on_change" /\ FormIsValid(form) /\ current_index # -1
  \/ op = "_delete_current" /\ reply = "Yes"
  \/ /\ op \in {"_show_previous", "_show_next"}
     /\ status_lbl \notin {STATUS_EMPTY, STATUS_FIRST, STATUS_LAST}

\* C17: after a submit, change, confirmed delete, previous or next that
\* got to its save and whose write succeeded, result.csv is the text of
\* the entries in memory: the header and one line per entry, the header
\* alone when a delete emptied the store.
C17_FileIsTextOfEntries ==
  (SaveRan /\ status_lbl # STATUS_WRITE_FAILED) =>
    /\ csv_file = _entries_to_csv(entries)
    /\ Len(split(csv_file, "\n")) = Len(entries) + 1
    /\ entries = <<>> => csv_file = CSV_HEADER

\* C17 witness: a delete has emptied the store and written the header
C17_Witness ==
  /\ op = "_delete_current" /\ reply = "Yes"
  /\ entries = <<>>
  /\ status_lbl = STATUS_ALL_DELETED
  /\ csv_file = CSV_HEADER

\* the effect on entries and current_index of the step, a call that gets
\* to its save, as stated for the calls whose write succeeds
EffectInMemory ==
  /\ op' = "_on_submit" =>
       /\ Len(entries') = Len(entries) + 1
       /\ \A i \in 1..Len(entries) : entries'[i] = entries[i]
       /\ \A k \in 1..4 :
            entries'[Len(entries')].people[k].name = strip(form'.names[k])
       /\ current_index' = Len(entries') - 1
  /\ op' = "_on_change" =>
       /\ Len(entries') = Len(entries)
       /\ \A j \in 1..Len(entries) : j # current_index + 1 => entries'[j] = entries[j]
       /\ \A k \in 1..4 :
            entries'[current_index + 1].people[k].name = strip(form'.names[k])
       /\ current_index' = current_index
  /\ op' = "_delete_current" =>
       /\ Len(entries') = Len(entries) - 1
       /\ \A j \in 1..Len(entries') :
            entries'[j] = IF j <= current_index THEN entries[j] ELSE entries[j + 1]
       /\ current_index' = IF Len(entries) = 1 THEN -1
                           ELSE Min(current_index, Len(entries) - 2)
  /\ op' = "_show_previous" =>
       entries' = entries /\ current_index' = current_index - 1
  /\ op' = "_show_next" =>
       entries' = entries /\ current_index' = current_index + 1
  /\ (current_index' = -1) <=> (entries' = <<>>)
  /\ entries' # <<>> => (0 <= current_index' /\ current_index' < Len(entries'))

C16_RankWriteErrorReported ==
  (op = "_on_sum_and_rank" /\ entries # <<>> /\ ranking_file # stdout) =>
    /\ Len(sorted_totals) = Cardinality(RawNames(entries))
    /\ Len(split(stdout, "\n")) = Len(sorted_totals) + 1
    /\ status_lbl = STATUS_RANK_WRITE_FAILED

\* the pairs (number, name) in the rows of the mapping file
FilePairs(file) ==
  {<<py_int(strip(map_rows(file)[i][1])).val, strip(map_rows(file)[i][2])>> :
     i \in {j \in 1..Len(map_rows(file)) :
              /\ Len(map_rows(file)[j]) >= 2
              /\ py_int(strip(map_rows(file)[j][1])).ok}}

\* C14: after a load of a mapping file that holds the pair (n, name), and
\* with no save of the mapping since, rank emits name as the display name
\* of the raw name that is the decimal text of n.
C14_RankUsesLoadedMapping ==
  (op = "_on_sum_and_rank" /\ entries # <<>> /\ ~rank_raised /\ map_loaded) =>
    \A pair \in FilePairs(map_file) :
      \A k \in 1..Len(sorted_totals) :
        sorted_totals[k].name = py_str(pair[1]) => RankLine(stdout, k)[3] = pair[2]

\* the text is made of digits only
AllDigits(text) == text # <<>> /\ \A i \in 1..Len(text) : text[i] \in DigitSet

\* C15: rank gives every raw name a display name: the mapped name when the
\* raw name is made of digits only and its integer value is a key of the
\* mapping, and the raw name itself in every other case.
C15_Resolve ==
  (op = "_on_sum_and_rank" /\ entries # <<>>) =>
    /\ ~rank_raised
    /\ \A k \in 1..Len(sorted_totals) :
         LET raw == sorted_totals[k].name
         IN RankLine(stdout, k)[3] =
              IF AllDigits(raw) /\ digits_value(raw) \in DOMAIN mapping
              THEN mapping[digits_value(raw)]
              ELSE raw

\* the cases of C15 where int(name) has a value: 7 mapped to "A", 9 not
\* mapped; "7" and "07" are shown as "A", "9" and the literal "A" as
\* themselves
ResolveCases ==
  /\ op = "_on_sum_and_rank"
  /\ DOMAIN mapping = {7}
  /\ mapping[7] = <<"A">>
  /\ \E k \in 1..Len(sorted_totals) :
       sorted_totals[k].name = <<"0", "7">> /\ RankLine(stdout, k)[3] = <<"A">>
  /\ \E k \in 1..Len(sorted_totals) :
       sorted_totals[k].name = <<"7">> /\ RankLine(stdout, k)[3] = <<"A">>
  /\ \E k \in 1..Len(sorted_totals) :
       sorted_totals[k].name = <<"9">> /\ RankLine(stdout, k)[3] = <<"9">>
  /\ \E k \in 1..Len(sorted_totals) :
       sorted_totals[k].name = <<"A">> /\ RankLine(stdout, k)[3] = <<"A">>

\* the slots with a number and a name, both non-empty after stripping
Filled == {i \in 1..NumSlots :
             strip(mapping_edits[i].num) # <<>> /\ strip(mapping_edits[i].name) # <<>>}

\* the player number of a slot
SlotNumber(i) == py_int(mapping_edits[i].num).val

\* the last filled slot that carries the number
LastSlotOf(n) ==
  CHOOSE i \in Filled :
    SlotNumber(i) = n /\ \A j \in Filled : SlotNumber(j) = n => j <= i

\* C20: a save of the mapping keeps in memory one pair per distinct number
\* of the filled slots, with the name of the last slot that carries the
\* number, and writes the header and one row per pair in strictly
\* ascending order of the number.
C20_MappingSave ==
  (op = "_save_mapping_to_file") =>
    /\ DOMAIN mapping = {SlotNumber(i) : i \in Filled}
    /\ \A n \in DOMAIN mapping : mapping[n] = strip(mapping_edits[LastSlotOf(n)].name)
    /\ status_lbl = STATUS_MAP_SAVED =>
         LET rows == map_rows(map_file)
         IN /\ split(map_file, "\r\n")[1] = MAP_HEADER
            /\ Len(rows) = Cardinality(DOMAIN mapping)
            /\ \A j \in 1..Len(rows) :
                 /\ Len(rows[j]) = 2
                 /\ py_int(rows[j][1]).val \in DOMAIN mapping
                 /\ rows[j][1] = py_str(py_int(rows[j][1]).val)
                 /\ rows[j][2] = mapping[py_int(rows[j][1]).val]
            /\ \A j \in 1..(Len(rows) - 1) :
                 py_int(rows[j][1]).val < py_int(rows[j + 1][1]).val

\* C20 witness: the slots (7, A), (3, B), (07, B) were saved: two rows,
\* 3 before 7, and 7 has the name of the third slot
C20_Witness ==
  /\ op = "_save_mapping_to_file"
  /\ status_lbl = STATUS_MAP_SAVED
  /\ mapping_edits[1].num = <<"7">> /\ mapping_edits[3].num = <<"0", "7">>
  /\ DOMAIN mapping = {3, 7}
  /\ mapping[7] = <<"B">>
  /\ map_rows(map_file) = <<<<<<"3">>, <<"B">>>>, <<<<"7">>, <<"B">>>>>>

\* the lines of the text that _entries_to_csv makes of the store
SerializedLines == split(_entries_to_csv(entries), "\n")

\* the fields of a data row are table, round and then name and points of
\* the seats 1..4, in seat order
RowOfEntry(fields, entry) ==
  /\ Len(fields) = 10
  /\ fields[1] = py_str(entry.table)
  /\ fields[2] = py_str(entry.round)
  /\ \A seat \in 1..4 :
       /\ fields[2 * seat + 1] = entry.people[seat].name
       /\ fields[2 * seat + 2] = py_str(entry.people[seat].points)

\* the data row of the scenario: 12,1,7,10,3,-5,9,0,1,15
ScenarioLine ==
  <<"1", "2", ",", "1", ",", "7", ",", "1", "0", ",", "3", ",", "-", "5", ",",
    "9", ",", "0", ",", "1", ",", "1", "5">>

\* C21: the text of the store has len(entries) + 1 lines: the header, then
\* one row per entry in store order whose fields are table, round and the
\* name and points of the seats 1..4; the store that holds only the entry
\* of the scenario gives the row 12,1,7,10,3,-5,9,0,1,15.
C21_SerializeRows ==
  /\ Len(SerializedLines) = Len(entries) + 1
  /\ SerializedLines[1] = CSV_HEADER
  /\ \A i \in 1..Len(entries) :
       RowOfEntry(split(SerializedLines[i + 1], ","), entries[i])
  /\ entries = <<StoredEntry>> => SerializedLines[2] = ScenarioLine

\* the cases of C21 without "," in a name: three entries, the scenario
\* among them, each with its row of ten fields
SerializeCases ==
  /\ Len(entries) = 3
  /\ entries[2] = StoredEntry /\ entries[1] # StoredEntry
  /\ SerializedLines[3] = ScenarioLine
  /\ \A i \in 1..3 : RowOfEntry(split(SerializedLines[i + 1], ","), entries[i])

\* the step is a delete on a non-empty store whose question got another
\* answer than Yes
DeleteDeclined == op' = "_delete_current" /\ entries # <<>> /\ reply' # "Yes"

\* the step is a delete on an empty store
DeleteOnEmpty == op' = "_delete_current" /\ entries = <<>>

\* C22: a delete on a non-empty store whose confirmation is declined
\* leaves entries, current_index and result.csv unchanged; a delete on an
\* empty store sets the empty-store status, asks no question and leaves
\* entries, current_index and result.csv unchanged.
C22_DeclinedDeleteChangesNothing ==
  [][/\ DeleteDeclined =>
          /\ reply' = "No"
          /\ UNCHANGED <<entries, current_index, csv_file>>
     /\ DeleteOnEmpty =>
          /\ status_lbl' = STATUS_NO_DELETE
          /\ reply' = "none"
          /\ UNCHANGED <<entries, current_index, csv_file>>]_vars

\* C22 witness: a delete was declined on a store of two entries with the
\* cursor on the second one, while result.csv is not the text of the store
C22_Witness ==
  /\ op = "_delete_current" /\ reply = "No"
  /\ Len(entries) = 2 /\ current_index = 1
  /\ csv_file # _entries_to_csv(entries)

\* a delete has failed on an empty store whose file still holds a row
DeleteOnEmptyCase ==
  /\ op = "_delete_current" /\ reply = "none"
  /\ entries = <<>> /\ current_index = -1
  /\ status_lbl = STATUS_NO_DELETE
  /\ csv_file \notin {NoFile, CSV_HEADER, <<>>}

\* C23: a rank, whether it succeeds, fails on an empty store or fails to
\* write ranking.csv, leaves entries, current_index, the mapping and
\* result.csv unchanged.
C23_RankReadOnly ==
  [][op' = "_on_sum_and_rank" =>
       UNCHANGED <<entries, current_index, mapping, csv_file>>]_vars

\* C23 witness: a rank on a store of two entries has printed its ranking
\* and failed to write ranking.csv after opening it
C23_Witness ==
  /\ op = "_on_sum_and_rank"
  /\ Len(entries) = 2 /\ current_index = 1
  /\ csv_file = _entries_to_csv(entries)
  /\ stdout = ranking_csv(sorted(totals_items(entries)), mapping)
  /\ ranking_file = <<>>

====
